---------------------------- MODULE Spec2Model ----------------------------
(***************************************************************************)
(* Select From My Ideas: the front end (src/frontend/app.js), the session  *)
(* API it calls (POST /session/start, POST /session/{id}/select) and the   *)
(* Conversation Judge.                                                      *)
(*                                                                          *)
(* The front end is translated from app.js.  The server side (Session,     *)
(* Judge, Orchestrator) has no code under src/: it is modelled from        *)
(* spec.md sections 3, 4 and 7.                                            *)
(*                                                                          *)
(* Text is a sequence of one-character strings, so that trim() and the     *)
(* innerHTML -> textContent round trip are computed, not assumed.          *)
(***************************************************************************)
EXTENDS Integers, Sequences, FiniteSets, TLC

\* ------------------------------------------------------------------ bounds
\* Longest text the user types (idea input, free-text answer).
MaxTextLen == 1
\* Start requests issued in one run (each creates at most one session).
MaxStarts == 2
\* Calls (fetches, mock timers) in flight at once.
MaxCalls == 2
\* Option buttons of a question the user clicks: the first MaxOptionClick.
MaxOptionClick == 1
\* Largest round number and largest maxRounds handed to the Judge alone.
MaxJudgeRound == 8
\* requestAnimationFrame callbacks queued at once
MaxPending == 3

\* ------------------------------------------------------- program constants
\* state.maxRounds, and the Judge's default maxRounds
maxRounds == 5
\* state.sessionId = null
NoSession == 0

Null == "null"

\* --------------------------------------------------------------------- text
Chars == {" ", "a"}

RECURSIVE TextsOfLen(_)
TextsOfLen(n) ==
  IF n = 0 THEN {<<>>}
  ELSE {Append(t, c) : t \in TextsOfLen(n - 1), c \in Chars}

\* What the user can type into a text field.
Texts == UNION {TextsOfLen(n) : n \in 0..MaxTextLen}

IsSpace(c) == c = " "

RECURSIVE TrimStart(_)
TrimStart(s) ==
  IF s = <<>> THEN <<>>
  ELSE IF IsSpace(Head(s)) THEN TrimStart(Tail(s)) ELSE s

RECURSIVE TrimEnd(_)
TrimEnd(s) ==
  IF s = <<>> THEN <<>>
  ELSE IF IsSpace(s[Len(s)]) THEN TrimEnd(SubSeq(s, 1, Len(s) - 1)) ELSE s

\* String.prototype.trim
Trim(s) == TrimEnd(TrimStart(s))

\* JavaScript truthiness of a string
Truthy(s) == s # <<>>

IsLetter(c) == c \in {"a", "b", "c", "d", "p", "q", "u", "x"}

\* Drop the characters of a tag up to and including its ">" (or to the end).
RECURSIVE SkipTag(_)
SkipTag(s) ==
  IF s = <<>> THEN <<>>
  ELSE IF Head(s) = ">" THEN Tail(s) ELSE SkipTag(Tail(s))

\* The textContent of an element whose innerHTML was set from the string s:
\* "<" followed by a letter or "/" opens a tag, which carries no text.
RECURSIVE TextContent(_)
TextContent(s) ==
  IF s = <<>> THEN <<>>
  ELSE IF Head(s) = "<" /\ Len(s) > 1 /\ (IsLetter(s[2]) \/ s[2] = "/")
       THEN TextContent(SkipTag(Tail(s)))
       ELSE <<Head(s)>> \o TextContent(Tail(s))

\* -------------------------------------------------------------- the Judge
\* Understanding Snapshot: only remainingUncertainties is read by the Judge.
Understandings == {[remainingUncertainties |-> u] : u \in {<<>>, <<"u">>}}

DecideOnlyAtMax(roundNumber, understanding, limit) ==
  IF roundNumber = limit
  THEN [shouldConclude |-> TRUE, reason |-> "max iterations reached"]
  ELSE IF understanding.remainingUncertainties = <<>>
  THEN [shouldConclude |-> TRUE, reason |-> "no remaining uncertainties"]
  ELSE [shouldConclude |-> FALSE, reason |-> Null]

\* decide(roundNumber, understanding, maxRounds) -> (shouldConclude, reason)
Decide(roundNumber, understanding, limit) ==
  IF roundNumber >= limit
  THEN [shouldConclude |-> TRUE, reason |-> "max iterations reached"]
  ELSE IF understanding.remainingUncertainties = <<>>
  THEN [shouldConclude |-> TRUE, reason |-> "no remaining uncertainties"]
  ELSE [shouldConclude |-> FALSE, reason |-> Null]


\* --------------------------------------------------------- response shapes
\* null where the code has a string (selected_option, custom_input)
NullText == <<"null">>

NoFinalOutput == [present |-> FALSE, action_items |-> 0]

\* The final_output of mockSubmitSelections: four action items.
MockFinalOutput == [present |-> TRUE, action_items |-> 4]

\* The selections of mockStartSession: two questions, four options each.
MockStartSelections ==
  << [question |-> <<"p">>, allow_other |-> TRUE,
      options |-> << <<"c">>, <<"d">>, <<"c", "c">>, <<"d", "d">> >>],
     [question |-> <<"q">>, allow_other |-> TRUE,
      options |-> << <<"c", "d">>, <<"d", "c">>, <<"c", "a">>, <<"d", "a">> >>] >>

\* The selections of mockSubmitSelections for round < 2.
MockNextSelections ==
  << [question |-> <<"p", "p">>, allow_other |-> TRUE,
      options |-> << <<"a", "c">>, <<"a", "d">>, <<"b", "c">>, <<"b", "d">> >>],
     [question |-> <<"q", "q">>, allow_other |-> TRUE,
      options |-> << <<"x", "c">>, <<"x", "d">>, <<"x", "a">>, <<"x", "b">> >>] >>

\* mockStartSession(input): the data its promise resolves with; n numbers the
\* call, standing for the 'demo-' + Date.now() id (never a server id).
mockStartSession(input, n) ==
  [session_id |-> 0 - n, selections |-> MockStartSelections,
   should_conclude |-> FALSE, final_output |-> NoFinalOutput, mock |-> TRUE]

mockSubmitSelections(round) ==
  IF round >= 2
  THEN [session_id |-> NoSession, selections |-> <<>>,
        should_conclude |-> FALSE, final_output |-> MockFinalOutput, mock |-> TRUE]
  ELSE [session_id |-> NoSession, selections |-> MockNextSelections,
        should_conclude |-> FALSE, final_output |-> NoFinalOutput, mock |-> TRUE]

NoData ==
  [session_id |-> NoSession, selections |-> <<>>, should_conclude |-> FALSE,
   final_output |-> NoFinalOutput, mock |-> FALSE]

\* The test a handler would make on should_conclude instead.
ConcludeFlagSet(data) == data.should_conclude

\* if (data.final_output)
HasFinalOutput(data) == data.final_output.present


\* ------------------------------------------------------------- the Session
\* Longest originalInput that create() accepts (the configured maximum).
MaxInputLength == 3

NoRound ==
  [roundNumber |-> 0, selections |-> <<>>, shouldConclude |-> FALSE,
   conclusionReason |-> Null, nUserSelections |-> 0]

NoSessionRecord ==
  [originalInput |-> <<>>, rounds |-> <<>>, currentRound |-> 0,
   status |-> "none", finalOutput |-> NoFinalOutput]

Ok(s) == [ok |-> TRUE, err |-> "", s |-> s]
Err(e, s) == [ok |-> FALSE, err |-> e, s |-> s]

\* create(originalInput) -> Session
SessionCreate(input) ==
  IF input = <<>> \/ Len(input) > MaxInputLength
  THEN Err("InvalidInputError", NoSessionRecord)
  ELSE Ok([originalInput |-> input, rounds |-> <<>>, currentRound |-> 1,
           status |-> "in_progress", finalOutput |-> NoFinalOutput])

\* appendRound without its checks.
AppendRoundUnchecked(s, round) == Ok([s EXCEPT !.rounds = Append(@, round)])

\* appendRound(round) -> Session: currentRound is left as it is
AppendRound(s, round) ==
  IF s.status # "in_progress" \/ round.roundNumber # s.currentRound
  THEN Err("InvalidStateError", s)
  ELSE Ok([s EXCEPT !.rounds = Append(@, round)])

\* advance() skipping a round number.
AdvanceByTwo(s) ==
  IF s.status # "in_progress" \/ Len(s.rounds) < s.currentRound
  THEN Err("InvalidStateError", s)
  ELSE Ok([s EXCEPT !.currentRound = @ + 2])

\* advance() -> Session: needs a pending round (the round numbered currentRound)
Advance(s) ==
  IF s.status # "in_progress" \/ Len(s.rounds) < s.currentRound
  THEN Err("InvalidStateError", s)
  ELSE Ok([s EXCEPT !.currentRound = @ + 1])

\* conclude(output) without the check of the most recent round.
ConcludeAnyRound(s, output) ==
  IF s.status # "in_progress"
  THEN Err("InvalidStateError", s)
  ELSE Ok([s EXCEPT !.status = "completed", !.finalOutput = output])

\* conclude(output) -> Session
Conclude(s, output) ==
  IF s.status # "in_progress"
     \/ s.rounds = <<>>
     \/ ~s.rounds[Len(s.rounds)].shouldConclude
  THEN Err("InvalidStateError", s)
  ELSE Ok([s EXCEPT !.status = "completed", !.finalOutput = output])

\* ----------------------------------------------------------- collaborators
OptA == <<"a">>
OptB == <<"b">>
\* An option whose text carries markup: rendered, it reads "x".
OptMarkup == <<"<", "b", ">", "x">>

\* The question batch the Generator returns when it asks: a question with
\* free text allowed and one without.
GenBatch ==
  << [question |-> <<"p">>, allow_other |-> TRUE, options |-> <<OptA, OptB>>],
     [question |-> <<"q">>, allow_other |-> FALSE, options |-> <<OptB, OptA>>] >>

\* A batch whose first option carries markup.
MarkupBatch ==
  << [question |-> <<"q">>, allow_other |-> FALSE, options |-> <<OptMarkup, OptA>>],
     [question |-> <<"p">>, allow_other |-> TRUE, options |-> <<OptB>>],
     [question |-> <<"u">>, allow_other |-> FALSE, options |-> <<OptA>>] >>

\* Generator.generate(...): a failure, or {understanding, selections,
\* shouldConclude} with at least one question unless shouldConclude.
GenFailed ==
  [ok |-> FALSE, understanding |-> [remainingUncertainties |-> <<>>],
   selections |-> <<>>, shouldConclude |-> FALSE]

GenAsks(batch) ==
  [ok |-> TRUE, understanding |-> [remainingUncertainties |-> <<"u">>],
   selections |-> batch, shouldConclude |-> FALSE]

GenResults ==
  { GenFailed,
    GenAsks(GenBatch),
    [ok |-> TRUE, understanding |-> [remainingUncertainties |-> <<>>],
     selections |-> GenBatch, shouldConclude |-> FALSE],
    [ok |-> TRUE, understanding |-> [remainingUncertainties |-> <<"u">>],
     selections |-> <<>>, shouldConclude |-> TRUE] }

\* Synthesizer.synthesize(...): a failure, or a FinalOutput with actionItems
SynthResults == {NoFinalOutput, [present |-> TRUE, action_items |-> 1]}


\* ---------------------------------------------------------- the Orchestrator
HttpOk(data) == [ok |-> TRUE, err |-> "", data |-> data]
HttpError(e) == [ok |-> FALSE, err |-> e, data |-> NoData]

\* The Round built from a Generator result: the Judge's decision or the
\* Generator's own shouldConclude concludes.
BuildRound(number, gen) ==
  LET j == Decide(number, gen.understanding, maxRounds)
  IN [roundNumber |-> number, selections |-> gen.selections,
      shouldConclude |-> j.shouldConclude \/ gen.shouldConclude,
      conclusionReason |->
        IF j.shouldConclude THEN j.reason
        ELSE IF gen.shouldConclude THEN "generator" ELSE Null,
      nUserSelections |-> 0]

\* One selection entry against the question it answers.
ValidEntry(entry, q) ==
  \/ /\ entry.selected_option # NullText
     /\ entry.custom_input = NullText
     /\ \E o \in 1..Len(q.options) : q.options[o] = entry.selected_option
  \/ /\ entry.selected_option = NullText
     /\ entry.custom_input # NullText
     /\ q.allow_other

\* The submitted selections against the pending round's asked questions.
ValidSelections(entries, round) ==
  /\ Len(entries) = Len(round.selections)
  /\ \A i \in 1..Len(entries) : ValidEntry(entries[i], round.selections[i])

\* startSession(input): [reply, stored, s]; stored says whether s is saved.
OrchStart(input, id, gen, synth) ==
  LET c == SessionCreate(input)
      round == BuildRound(1, gen)
      a == AppendRound(c.s, round)
      f == Conclude(a.s, synth)
  IN IF ~c.ok THEN [reply |-> HttpError(c.err), stored |-> FALSE, s |-> c.s]
     ELSE IF ~gen.ok
       THEN [reply |-> HttpError("GenerationFailedError"), stored |-> FALSE, s |-> c.s]
     ELSE IF ~a.ok THEN [reply |-> HttpError(a.err), stored |-> FALSE, s |-> c.s]
     ELSE IF ~round.shouldConclude
       THEN [reply |-> HttpOk([session_id |-> id, selections |-> gen.selections,
                               should_conclude |-> FALSE,
                               final_output |-> NoFinalOutput, mock |-> FALSE]),
             stored |-> TRUE, s |-> a.s]
     ELSE IF ~synth.present
       THEN [reply |-> HttpError("GenerationFailedError"), stored |-> FALSE, s |-> c.s]
     ELSE IF ~f.ok THEN [reply |-> HttpError(f.err), stored |-> FALSE, s |-> c.s]
     ELSE [reply |-> HttpOk([session_id |-> id, selections |-> <<>>,
                             should_conclude |-> TRUE,
                             final_output |-> synth, mock |-> FALSE]),
           stored |-> TRUE, s |-> f.s]

\* submitSelections(sessionId, selections) on the stored session s: record the
\* selections on the current round, advance(), generate, judge; if conclude,
\* synthesize and conclude(); otherwise append the round.
OrchSubmit(s, entries, gen, synth) ==
  LET cur == s.rounds[s.currentRound]
      rec == [s EXCEPT !.rounds[s.currentRound].nUserSelections = Len(entries)]
      adv == Advance(rec)
      round == BuildRound(adv.s.currentRound, gen)
      app == AppendRound(adv.s, round)
      fin == Conclude(adv.s, synth)
  IN IF s.status = "completed"
       THEN [reply |-> HttpError("InvalidStateError"), stored |-> FALSE, s |-> s]
     ELSE IF Len(s.rounds) < s.currentRound \/ ~ValidSelections(entries, cur)
       THEN [reply |-> HttpError("ValidationError"), stored |-> FALSE, s |-> s]
     ELSE IF ~adv.ok THEN [reply |-> HttpError(adv.err), stored |-> FALSE, s |-> s]
     ELSE IF ~gen.ok
       THEN [reply |-> HttpError("GenerationFailedError"), stored |-> FALSE, s |-> s]
     ELSE IF ~round.shouldConclude
       THEN IF ~app.ok THEN [reply |-> HttpError(app.err), stored |-> FALSE, s |-> s]
            ELSE [reply |-> HttpOk([session_id |-> NoSession,
                                    selections |-> gen.selections,
                                    should_conclude |-> FALSE,
                                    final_output |-> NoFinalOutput, mock |-> FALSE]),
                  stored |-> TRUE, s |-> app.s]
     ELSE IF ~synth.present
       THEN [reply |-> HttpError("GenerationFailedError"), stored |-> FALSE, s |-> s]
     ELSE IF ~fin.ok THEN [reply |-> HttpError(fin.err), stored |-> FALSE, s |-> s]
     ELSE [reply |-> HttpOk([session_id |-> NoSession, selections |-> <<>>,
                             should_conclude |-> TRUE,
                             final_output |-> synth, mock |-> FALSE]),
           stored |-> TRUE, s |-> fin.s]


\* ============================================================ the front end
VARIABLES
  sessionId, currentRound, selections, originalInput, currentData,  \* state
  ideaInput,        \* elements.ideaInput.value
  questionsList,    \* the question blocks of elements.questionsList
  btnNextDisabled,  \* elements.btnNext.disabled
  roundLabel,       \* the round elements.roundLabel shows
  resultsView,      \* the final output rendered into the results screen
  screen,           \* the screen the last showScreen call made current
  net,              \* the fetch calls and mock timers not yet resumed
  nStarts,          \* start requests issued so far
  sessions,         \* the server's stored sessions, by id
  ev,               \* the handler step that ran last
  resultsFor,       \* history: requests' sessions whose results were shown
  judged,           \* the Judge alone: its inputs and its decision
  core,             \* the Orchestrator alone: one session, step by step
  questionsFor,     \* history: the session whose questions are displayed
  active,           \* showScreen alone: the screens with the class 'active'
  raf               \* showScreen alone: the requestAnimationFrame callbacks queued

state == <<sessionId, currentRound, selections, originalInput, currentData>>
dom == <<ideaInput, questionsList, btnNextDisabled, roundLabel, resultsView, screen>>
vars == <<state, dom, net, nStarts, sessions, ev, resultsFor, judged, core,
          questionsFor, active, raf>>

NoSelections == <<>>

NoCall ==
  [kind |-> "none", phase |-> "none", n |-> 0, sid |-> NoSession, input |-> <<>>,
   entries |-> <<>>, ok |-> FALSE, data |-> NoData]

\* The handler step that ran last: the session its request named, whether the
\* data it resumed with carried final_output or came from a mock, and
\* state.currentRound before the step.
Event(h, call, data, round) ==
  [h |-> h, sid |-> call.sid, final |-> data.final_output.present, mock |-> data.mock,
   round |-> round]

\* A step no property asks about.
Idle == Event("-", NoCall, NoData, 0)

RemoveAt(seq, i) == SubSeq(seq, 1, i - 1) \o SubSeq(seq, i + 1, Len(seq))

\* showScreen(screenId)
ShowScreen(screenId) == screen' = screenId

\* updateRoundIndicator(round)
UpdateRoundIndicator(round) == roundLabel' = round

AnsweredBlankCustom(sel) == sel.type = "option" \/ sel.type = "custom"

\* the filter of updateNextButton
Answered(sel) ==
  sel.type = "option" \/ (sel.type = "custom" /\ Truthy(Trim(sel.value)))

AnsweredCount(sels) == Cardinality({k \in DOMAIN sels : Answered(sels[k])})

\* updateNextButton(): the value it gives btnNext.disabled
NextDisabled(sels, qlist) == AnsweredCount(sels) < Len(qlist)

\* renderQuestions(data)
RenderQuestions(data) ==
  /\ currentData' = data
  /\ questionsList' = data.selections
  /\ selections' = NoSelections
  /\ btnNextDisabled' = NextDisabled(NoSelections, data.selections)

\* renderResults(finalOutput)
RenderResults(finalOutput) == resultsView' = finalOutput

\* state.selections[questionIndex] = sel
SetSelection(sels, q, sel) ==
  [k \in DOMAIN sels \cup {q} |-> IF k = q THEN sel ELSE sels[k]]

\* The 'other' button and the custom input exist only with allow_other.
HasOtherAlways(q) == TRUE

HasOther(q) == q.allow_other

\* handleOptionClick on option button o of question q
ClickOption(q, o) ==
  /\ screen = "screenQuestions"
  /\ selections' = SetSelection(selections, q,
       [type |-> "option", value |-> TextContent(questionsList[q].options[o])])
  /\ btnNextDisabled' = NextDisabled(selections', questionsList)
  /\ ev' = Idle
  /\ UNCHANGED <<sessionId, currentRound, originalInput, currentData, ideaInput,
                 questionsList, roundLabel, resultsView, screen, net, nStarts,
                 sessions, resultsFor, judged, core, questionsFor, active, raf>>

\* handleOptionClick on the 'other' button of question q
ClickOther(q) ==
  /\ screen = "screenQuestions"
  /\ HasOther(questionsList[q])
  /\ selections' = SetSelection(selections, q, [type |-> "custom", value |-> <<>>])
  /\ btnNextDisabled' = NextDisabled(selections', questionsList)
  /\ ev' = Idle
  /\ UNCHANGED <<sessionId, currentRound, originalInput, currentData, ideaInput,
                 questionsList, roundLabel, resultsView, screen, net, nStarts,
                 sessions, resultsFor, judged, core, questionsFor, active, raf>>

\* handleCustomInput: the user edits the visible custom input of question q
CustomInput(q, text) ==
  /\ screen = "screenQuestions"
  /\ HasOther(questionsList[q])
  /\ q \in DOMAIN selections /\ selections[q].type = "custom"
  /\ selections' = SetSelection(selections, q, [type |-> "custom", value |-> text])
  /\ btnNextDisabled' = NextDisabled(selections', questionsList)
  /\ ev' = Idle
  /\ UNCHANGED <<sessionId, currentRound, originalInput, currentData, ideaInput,
                 questionsList, roundLabel, resultsView, screen, net, nStarts,
                 sessions, resultsFor, judged, core, questionsFor, active, raf>>

\* The user edits the idea input on the welcome screen.
TypeIdea(text) ==
  /\ screen = "screenWelcome"
  /\ ideaInput' = text
  /\ ev' = Idle
  /\ UNCHANGED <<state, questionsList, btnNextDisabled, roundLabel, resultsView,
                 screen, net, nStarts, sessions, resultsFor, judged, core, questionsFor, active, raf>>


\* The keys of an object in the order Object.entries lists them: integer
\* keys ascending.
RECURSIVE KeysInOrder(_)
KeysInOrder(keys) ==
  IF keys = {} THEN <<>>
  ELSE LET k == CHOOSE x \in keys : \A y \in keys : x <= y
       IN <<k>> \o KeysInOrder(keys \ {k})

\* One element of the selections array handleNext builds.
SelectionEntry(q, sel, qlist) ==
  [question |-> TextContent(qlist[q].question),
   selected_option |-> IF sel.type = "option" THEN sel.value ELSE NullText,
   custom_input |-> IF sel.type = "custom" THEN sel.value ELSE NullText]

\* Object.entries(state.selections).map(...)
SelectionEntries(sels, qlist) ==
  LET keys == KeysInOrder(DOMAIN sels)
  IN [i \in 1..Len(keys) |-> SelectionEntry(keys[i], sels[keys[i]], qlist)]

\* resetState()
ResetState ==
  /\ sessionId' = NoSession
  /\ currentRound' = 1
  /\ selections' = NoSelections
  /\ originalInput' = <<>>
  /\ currentData' = NoData

\* if (!input) on the untrimmed value
BlankUntrimmed(text) == ~Truthy(text)

\* const input = elements.ideaInput.value.trim(); if (!input)
Blank(text) == ~Truthy(Trim(text))

\* handleStart(), up to its await: btnStart or Enter on the welcome screen
HandleStart ==
  /\ screen = "screenWelcome"
  /\ IF Blank(ideaInput)
     THEN /\ ev' = Event("handleStart:return", NoCall, NoData, currentRound)
          /\ UNCHANGED <<state, dom, net, nStarts, sessions, resultsFor, judged, core, questionsFor, active, raf>>
     ELSE /\ nStarts < MaxStarts /\ Len(net) < MaxCalls
          /\ originalInput' = Trim(ideaInput)
          /\ ShowScreen("screenLoading")
          /\ nStarts' = nStarts + 1
          /\ net' = Append(net, [NoCall EXCEPT !.kind = "start", !.phase = "sent",
                                   !.n = nStarts + 1, !.input = Trim(ideaInput)])
          /\ ev' = Event("handleStart", net'[Len(net')], NoData, currentRound)
          /\ UNCHANGED <<sessionId, currentRound, selections, currentData,
                         ideaInput, questionsList, btnNextDisabled, roundLabel,
                         resultsView, sessions, resultsFor, judged, core, questionsFor, active, raf>>

\* handleNext(), up to its await: btnNext on the question screen
HandleNext ==
  /\ screen = "screenQuestions"
  /\ ~btnNextDisabled
  /\ Len(net) < MaxCalls
  /\ ShowScreen("screenLoading")
  /\ net' = Append(net, [NoCall EXCEPT !.kind = "select", !.phase = "sent",
                           !.sid = sessionId,
                           !.entries = SelectionEntries(selections, questionsList)])
  /\ ev' = Event("handleNext", net'[Len(net')], NoData, currentRound)
  /\ UNCHANGED <<state, ideaInput, questionsList, btnNextDisabled, roundLabel,
                 resultsView, nStarts, sessions, resultsFor, judged, core, questionsFor, active, raf>>

\* handleBack(): btnBack on the question screen
HandleBack ==
  /\ screen = "screenQuestions"
  /\ ResetState
  /\ ShowScreen("screenWelcome")
  /\ ev' = Event("handleBack", NoCall, NoData, currentRound)
  /\ UNCHANGED <<ideaInput, questionsList, btnNextDisabled, roundLabel,
                 resultsView, net, nStarts, sessions, resultsFor, judged, core, questionsFor, active, raf>>

\* handleRestart(): btnRestart on the results screen, or the logo (window.handleRestart)
HandleRestart ==
  /\ ResetState
  /\ ideaInput' = <<>>
  /\ ShowScreen("screenWelcome")
  /\ ev' = Event("handleRestart", NoCall, NoData, currentRound)
  /\ UNCHANGED <<questionsList, btnNextDisabled, roundLabel, resultsView, net,
                 nStarts, sessions, resultsFor, judged, core, questionsFor, active, raf>>


\* ------------------------------------------------------- the calls in flight
\* The server takes a start request: POST /session/start
ServerStart(i, gen, synth) ==
  /\ net[i].kind = "start" /\ net[i].phase = "sent"
  /\ LET r == OrchStart(net[i].input, net[i].n, gen, synth)
     IN /\ sessions' =
             IF r.stored
             THEN [k \in DOMAIN sessions \cup {net[i].n} |->
                     IF k = net[i].n THEN r.s ELSE sessions[k]]
             ELSE sessions
        /\ net' = [net EXCEPT ![i].phase = "replied", ![i].ok = r.reply.ok,
                              ![i].input = <<>>,
                              ![i].data = r.reply.data]
  /\ ev' = Idle
  /\ UNCHANGED <<state, dom, nStarts, resultsFor, judged, core, questionsFor, active, raf>>

\* The server takes a select request: POST /session/{id}/select
ServerSelect(i, gen, synth) ==
  /\ net[i].kind = "select" /\ net[i].phase = "sent"
  /\ LET known == net[i].sid \in DOMAIN sessions
         r == OrchSubmit(sessions[net[i].sid], net[i].entries, gen, synth)
         reply == IF known THEN r.reply ELSE HttpError("SessionNotFoundError")
     IN /\ sessions' =
             IF known /\ r.stored
             THEN [sessions EXCEPT ![net[i].sid] = r.s]
             ELSE sessions
        /\ net' = [net EXCEPT ![i].phase = "replied", ![i].ok = reply.ok,
                              ![i].entries = <<>>,
                              ![i].data = reply.data]
  /\ ev' = Idle
  /\ UNCHANGED <<state, dom, nStarts, resultsFor, judged, core, questionsFor, active, raf>>

\* startSession's catch: fetch threw, or the response was not OK; the mock
\* promise is created now.
StartCatch(i) ==
  /\ net[i].kind = "start"
  /\ net[i].phase = "sent" \/ net[i].phase = "replied"
  /\ net' = [net EXCEPT ![i].phase = "mock", ![i].ok = FALSE, ![i].input = <<>>,
                        ![i].data = mockStartSession(net[i].input, net[i].n)]
  /\ ev' = Idle
  /\ UNCHANGED <<state, dom, nStarts, sessions, resultsFor, judged, core, questionsFor, active, raf>>

\* submitSelections' catch: mockSubmitSelections(state.currentRound) reads
\* the round now.
SubmitCatch(i) ==
  /\ net[i].kind = "select"
  /\ net[i].phase = "sent" \/ net[i].phase = "replied"
  /\ net' = [net EXCEPT ![i].phase = "mock", ![i].ok = FALSE, ![i].entries = <<>>,
                        ![i].data = mockSubmitSelections(currentRound)]
  /\ ev' = Idle
  /\ UNCHANGED <<state, dom, nStarts, sessions, resultsFor, judged, core, questionsFor, active, raf>>

\* The awaited call resolves: an OK response, or the mock timer.
Resolved(call) == (call.phase = "replied" /\ call.ok) \/ call.phase = "mock"

\* handleStart() after its await
HandleStartResume(i) ==
  /\ net[i].kind = "start" /\ Resolved(net[i])
  /\ LET data == net[i].data
     IN /\ sessionId' = data.session_id
        /\ currentRound' = 1
        /\ IF HasFinalOutput(data)
           THEN /\ RenderResults(data.final_output)
                /\ ShowScreen("screenResults")
                /\ resultsFor' = resultsFor \cup {data.session_id}
                /\ UNCHANGED <<selections, currentData, questionsList,
                               btnNextDisabled, roundLabel, questionsFor>>
           ELSE /\ UpdateRoundIndicator(currentRound')
                /\ RenderQuestions(data)
                /\ ShowScreen("screenQuestions")
                /\ questionsFor' = data.session_id
                /\ UNCHANGED <<resultsView, resultsFor>>
        /\ ev' = Event("handleStart:resume", net[i], data, currentRound)
  /\ net' = RemoveAt(net, i)
  /\ UNCHANGED <<originalInput, ideaInput, nStarts, sessions, judged, core, active, raf>>

\* The step handleNext takes on a response without final_output.
NextRoundKeep(round) == round

NextRound(round) == round + 1

\* handleNext() after its await
HandleNextResume(i) ==
  /\ net[i].kind = "select" /\ Resolved(net[i])
  /\ LET data == net[i].data
     IN /\ IF HasFinalOutput(data)
           THEN /\ RenderResults(data.final_output)
                /\ ShowScreen("screenResults")
                /\ resultsFor' = resultsFor \cup {net[i].sid}
                /\ UNCHANGED <<currentRound, selections, currentData,
                               questionsList, btnNextDisabled, roundLabel,
                               questionsFor>>
           ELSE /\ currentRound' = NextRound(currentRound)
                /\ UpdateRoundIndicator(currentRound')
                /\ RenderQuestions(data)
                /\ ShowScreen("screenQuestions")
                /\ questionsFor' = net[i].sid
                /\ UNCHANGED <<resultsView, resultsFor>>
        /\ ev' = Event("handleNext:resume", net[i], data, currentRound)
  /\ net' = RemoveAt(net, i)
  /\ UNCHANGED <<sessionId, originalInput, ideaInput, nStarts, sessions, judged, core,
                 active, raf>>

\* ------------------------------------------------------ the specifications
\* No session in the Orchestrator taken alone.
NoCore ==
  [at |-> "none", s |-> NoSessionRecord, stored |-> NoSessionRecord,
   prev |-> NoSessionRecord, op |-> "", step |-> "", err |-> "",
   pending |-> NoRound, synthCalls |-> 0]

NotJudged ==
  [roundNumber |-> 0, understanding |-> [remainingUncertainties |-> <<>>],
   limit |-> 0, done |-> FALSE, out |-> [shouldConclude |-> FALSE, reason |-> Null]]

\* The page after init(): the welcome screen, no session.
Init ==
  /\ sessionId = NoSession
  /\ currentRound = 1
  /\ selections = NoSelections
  /\ originalInput = <<>>
  /\ currentData = NoData
  /\ ideaInput = <<>>
  /\ questionsList = <<>>
  /\ btnNextDisabled = FALSE
  /\ roundLabel = 1
  /\ resultsView = NoFinalOutput
  /\ screen = "screenWelcome"
  /\ net = <<>>
  /\ nStarts = 0
  /\ sessions = <<>>
  /\ ev = Idle
  /\ resultsFor = {}
  /\ judged = NotJudged
  /\ core = NoCore
  /\ questionsFor = NoSession
  /\ active = {"screenWelcome"}
  /\ raf = <<>>

\* The user answers with the option buttons.
OptionStep ==
  \E q \in 1..Len(questionsList) :
    \E o \in 1..Len(questionsList[q].options) :
      o <= MaxOptionClick /\ ClickOption(q, o)

\* The user answers with free text.
FreeTextStep ==
  \/ \E q \in 1..Len(questionsList) : ClickOther(q)
  \/ \E q \in 1..Len(questionsList) : \E text \in Texts : CustomInput(q, text)

UserStep ==
  \/ \E text \in Texts : TypeIdea(text)
  \/ HandleStart
  \/ OptionStep
  \/ HandleNext
  \/ HandleBack
  \/ HandleRestart

NetStep ==
  \/ \E i \in 1..Len(net) : \E gen \in GenResults : \E synth \in SynthResults :
       ServerStart(i, gen, synth)
  \/ \E i \in 1..Len(net) : \E gen \in GenResults : \E synth \in SynthResults :
       ServerSelect(i, gen, synth)
  \/ \E i \in 1..Len(net) : StartCatch(i)
  \/ \E i \in 1..Len(net) : SubmitCatch(i)
  \/ \E i \in 1..Len(net) : HandleStartResume(i)
  \/ \E i \in 1..Len(net) : HandleNextResume(i)

Next == UserStep \/ NetStep

Spec == Init /\ [][Next]_vars


\* ------------------------------------------------------------ the form alone
\* The server's session 1 after startSession("a") asked the batch.
FormSession(batch) == OrchStart(<<"a">>, 1, GenAsks(batch), NoFinalOutput)

\* Session 1 after one submitSelections that asked the batch again.
FormSessionNext(batch) ==
  OrchSubmit(FormSession(batch).s,
             [i \in 1..Len(batch) |->
                [question |-> batch[i].question,
                 selected_option |-> batch[i].options[Len(batch[i].options)],
                 custom_input |-> NullText]],
             GenAsks(batch), NoFinalOutput)

\* The handler step that rendered the form: its name and its request's session.
FormEvent(round, sid, data) ==
  IF round = 1
  THEN Event("handleStart:resume", NoCall, data, 1)
  ELSE Event("handleNext:resume", [NoCall EXCEPT !.sid = sid], data, 1)

\* The question screens the flow renders, each with the state around it:
\* round 1 and round 2 of a server session and of a mock session.
FormStates ==
  {[data |-> FormSession(b).reply.data, sid |-> 1, round |-> 1,
    sessions |-> <<FormSession(b).s>>] : b \in {GenBatch, MarkupBatch}}
  \cup
  {[data |-> FormSessionNext(b).reply.data, sid |-> 1, round |-> 2,
    sessions |-> <<FormSessionNext(b).s>>] : b \in {GenBatch, MarkupBatch}}
  \cup
  {[data |-> mockStartSession(<<"a">>, 1), sid |-> 0 - 1, round |-> 1,
    sessions |-> <<>>],
   [data |-> mockSubmitSelections(1), sid |-> 0 - 1, round |-> 2,
    sessions |-> <<>>]}

\* A question screen just rendered.
FormInit ==
  \E f \in FormStates :
    /\ sessionId = f.sid
    /\ currentRound = f.round
    /\ selections = NoSelections
    /\ originalInput = <<"a">>
    /\ currentData = f.data
    /\ ideaInput = <<"a">>
    /\ questionsList = f.data.selections
    /\ btnNextDisabled = NextDisabled(NoSelections, f.data.selections)
    /\ roundLabel = f.round
    /\ resultsView = NoFinalOutput
    /\ screen = "screenQuestions"
    /\ net = <<>>
    /\ nStarts = 1
    /\ sessions = f.sessions
    /\ ev = FormEvent(f.round, f.sid, f.data)
    /\ resultsFor = {}
    /\ judged = NotJudged
    /\ core = NoCore
    /\ questionsFor = f.sid
    /\ active = {"screenQuestions"}
    /\ raf = <<>>

FormNext == OptionStep \/ FreeTextStep \/ HandleNext

SpecForm == FormInit /\ [][FormNext]_vars

\* ----------------------------------------------------------- the Judge alone
JudgeInit ==
  /\ Init!1 /\ Init!2 /\ Init!3 /\ Init!4 /\ Init!5 /\ Init!6 /\ Init!7 /\ Init!8
  /\ Init!9 /\ Init!10 /\ Init!11 /\ Init!12 /\ Init!13 /\ Init!14 /\ Init!15
  /\ Init!16 /\ Init!18 /\ Init!19 /\ Init!20 /\ Init!21
  /\ \E r \in 0..MaxJudgeRound : \E m \in 1..MaxJudgeRound : \E u \in Understandings :
       judged = [NotJudged EXCEPT !.roundNumber = r, !.limit = m, !.understanding = u]

\* One call of decide(roundNumber, understanding, maxRounds)
Judge ==
  /\ ~judged.done
  /\ judged' = [judged EXCEPT !.done = TRUE,
                  !.out = Decide(judged.roundNumber, judged.understanding, judged.limit)]
  /\ UNCHANGED <<state, dom, net, nStarts, sessions, ev, resultsFor, core, questionsFor, active, raf>>

SpecJudge == JudgeInit /\ [][Judge]_vars


\* ------------------------------------------- handleStart against the API
\* The bodies an OK response of POST /session/start can carry: session_id,
\* selections and should_conclude, with or without a final_output.
StartResponses(n) ==
  {[session_id |-> n, selections |-> q, should_conclude |-> c,
    final_output |-> f, mock |-> FALSE] :
     q \in {<<>>, GenBatch}, c \in BOOLEAN, f \in SynthResults}

\* fetch resolves with an OK response and response.json() with its body.
StartReply(i, data) ==
  /\ net[i].kind = "start" /\ net[i].phase = "sent"
  /\ net' = [net EXCEPT ![i].phase = "replied", ![i].ok = TRUE,
                        ![i].input = <<>>, ![i].data = data]
  /\ ev' = Idle
  /\ UNCHANGED <<state, dom, nStarts, sessions, resultsFor, judged, core, questionsFor, active, raf>>

StartNext ==
  \/ \E text \in Texts : TypeIdea(text)
  \/ HandleStart
  \/ \E i \in 1..Len(net) : \E data \in StartResponses(net[i].n) : StartReply(i, data)
  \/ \E i \in 1..Len(net) : StartCatch(i)
  \/ \E i \in 1..Len(net) : HandleStartResume(i)
  \/ HandleBack
  \/ HandleRestart

SpecStart == Init /\ [][StartNext]_vars

\* ------------------------------------------------- the API out of reach
\* Every request fails: fetch throws and the catch answers with mock data.
MockNext ==
  \/ \E text \in Texts : TypeIdea(text)
  \/ HandleStart
  \/ OptionStep
  \/ HandleNext
  \/ HandleBack
  \/ HandleRestart
  \/ \E i \in 1..Len(net) : net[i].phase = "sent" /\ StartCatch(i)
  \/ \E i \in 1..Len(net) : net[i].phase = "sent" /\ SubmitCatch(i)
  \/ \E i \in 1..Len(net) : HandleStartResume(i)
  \/ \E i \in 1..Len(net) : HandleNextResume(i)

SpecMock == Init /\ [][MockNext]_vars

\* ------------------------------------------------- the Orchestrator alone
\* One session taken through startSession, submitSelections and
\* forceConclude one Session operation at a time.  core.at is the session's
\* state in the Orchestrator's state machine, core.s the Session value,
\* core.stored the value last saved (what a failing operation leaves),
\* core.prev the value before the last step, core.op the operation the last
\* step belongs to, core.step and core.err that step and its error,
\* core.pending the Round last built, core.synthCalls the Synthesizer calls
\* of that operation.
AtRest(s) == IF s.status = "completed" THEN "COMPLETED" ELSE
             IF s.status = "in_progress" THEN "AWAITING_SELECTION" ELSE "none"

\* A failing operation: the error goes to the caller, the session is as stored.
CoreFailed(step, e) ==
  [core EXCEPT !.at = AtRest(core.stored), !.s = core.stored, !.prev = core.s,
               !.step = step, !.err = e]

CoreFail(step, e) == core' = CoreFailed(step, e)

\* The inputs startSession is tried with: empty, an idea, an idea too long.
CoreInputs == {<<>>, <<"a">>, <<"a", "a", "a", "a">>}

\* startSession, first step: create(input)
CoreCreate(input) ==
  /\ core.at = "none"
  /\ LET c == SessionCreate(input)
     IN IF c.ok
        THEN core' = [core EXCEPT !.at = "AWAITING_GENERATION", !.s = c.s,
                                  !.prev = core.s, !.op = "start",
                                  !.step = "create", !.err = "", !.synthCalls = 0]
        ELSE CoreFail("create", c.err)
  /\ UNCHANGED <<state, dom, net, nStarts, sessions, ev, resultsFor, judged,
                 questionsFor, active, raf>>

\* The Generator is invoked for round currentRound, the Round is built and
\* judged; startSession appends it, submitSelections appends it unless it
\* concludes.
CoreGenerate(gen) ==
  /\ core.at = "AWAITING_GENERATION"
  /\ LET round == BuildRound(core.s.currentRound, gen)
         app == AppendRound(core.s, round)
         appends == core.op = "start" \/ ~round.shouldConclude
     IN IF ~gen.ok THEN CoreFail("generate", "GenerationFailedError")
        ELSE IF appends /\ ~app.ok THEN CoreFail("appendRound", app.err)
        ELSE core' = [core EXCEPT
               !.at = IF round.shouldConclude THEN "AWAITING_SYNTHESIS"
                      ELSE "AWAITING_SELECTION",
               !.s = IF appends THEN app.s ELSE core.s,
               !.stored = IF round.shouldConclude THEN core.stored ELSE app.s,
               !.prev = core.s,
               !.step = IF appends THEN "appendRound" ELSE "judge",
               !.err = "", !.pending = round]
  /\ UNCHANGED <<state, dom, net, nStarts, sessions, ev, resultsFor, judged,
                 questionsFor, active, raf>>

\* The Synthesizer is invoked and conclude(output) called.
CoreSynthesize(synth) ==
  /\ core.at = "AWAITING_SYNTHESIS"
  /\ LET fin == Conclude(core.s, synth)
     IN IF ~synth.present
        THEN core' = [CoreFailed("synthesize", "GenerationFailedError")
                        EXCEPT !.synthCalls = core.synthCalls + 1]
        ELSE IF ~fin.ok
        THEN core' = [CoreFailed("conclude", fin.err)
                        EXCEPT !.synthCalls = core.synthCalls + 1]
        ELSE core' = [core EXCEPT !.at = "COMPLETED", !.s = fin.s, !.stored = fin.s,
                                  !.prev = core.s, !.step = "conclude", !.err = "",
                                  !.synthCalls = core.synthCalls + 1]
  /\ UNCHANGED <<state, dom, net, nStarts, sessions, ev, resultsFor, judged,
                 questionsFor, active, raf>>

\* Valid answers to a round's questions (the first option of each), and a
\* list that does not match them.
CoreAnswers(round) ==
  [i \in 1..Len(round.selections) |->
     [question |-> round.selections[i].question,
      selected_option |-> round.selections[i].options[1],
      custom_input |-> NullText]]

\* submitSelections up to the Generator call: validate, record the
\* selections on the current Round, advance()
CoreSubmit(entries) ==
  /\ core.at \in {"none", "AWAITING_SELECTION", "COMPLETED"}
  /\ LET s == core.s
         rec == [s EXCEPT !.rounds[s.currentRound].nUserSelections = Len(entries)]
         adv == Advance(rec)
         began == [core EXCEPT !.op = "submitSelections", !.synthCalls = 0]
         failed(e) == [began EXCEPT !.prev = s, !.step = "submitSelections", !.err = e]
     IN core' =
          IF core.at = "none" THEN failed("SessionNotFoundError")
          ELSE IF s.status = "completed" THEN failed("InvalidStateError")
          ELSE IF ~ValidSelections(entries, s.rounds[s.currentRound])
            THEN failed("ValidationError")
          ELSE IF ~adv.ok THEN failed(adv.err)
          ELSE [began EXCEPT !.at = "AWAITING_GENERATION", !.s = adv.s, !.prev = s,
                             !.step = "advance", !.err = ""]
  /\ UNCHANGED <<state, dom, net, nStarts, sessions, ev, resultsFor, judged,
                 questionsFor, active, raf>>

\* forceConclude(sessionId) on the session: no Judge; the Synthesizer is
\* invoked and the session completed through conclude(output).
ForceConclude(s, synth) ==
  IF s.status # "in_progress" THEN Err("InvalidStateError", s)
  ELSE IF ~synth.present THEN Err("GenerationFailedError", s)
  ELSE Conclude(s, synth)

CoreForceConclude(synth) ==
  /\ core.at \in {"AWAITING_SELECTION", "COMPLETED"}
  /\ LET r == ForceConclude(core.s, synth)
     IN core' = [core EXCEPT !.at = AtRest(r.s), !.s = r.s, !.stored = r.s,
                             !.prev = core.s, !.op = "forceConclude",
                             !.step = "forceConclude", !.err = r.err,
                             !.synthCalls = IF core.s.status = "in_progress"
                                            THEN 1 ELSE 0]
  /\ UNCHANGED <<state, dom, net, nStarts, sessions, ev, resultsFor, judged,
                 questionsFor, active, raf>>

\* appendRound tried out of turn: with a round whose number is not
\* currentRound, or on a session that is not in_progress.
CoreAppendOutOfTurn(number) ==
  /\ core.at # "none"
  /\ number # core.s.currentRound \/ core.s.status # "in_progress"
  /\ LET r == AppendRound(core.s, [NoRound EXCEPT !.roundNumber = number])
     IN core' = [core EXCEPT !.s = r.s, !.prev = core.s,
                             !.step = "appendRound out of turn", !.err = r.err]
  /\ UNCHANGED <<state, dom, net, nStarts, sessions, ev, resultsFor, judged,
                 questionsFor, active, raf>>

CoreNext ==
  \/ \E input \in CoreInputs : CoreCreate(input)
  \/ \E gen \in GenResults : CoreGenerate(gen)
  \/ \E synth \in SynthResults : CoreSynthesize(synth)
  \/ /\ core.at = "AWAITING_SELECTION"
     /\ \E entries \in {<<>>, CoreAnswers(core.s.rounds[core.s.currentRound])} :
          CoreSubmit(entries)
  \/ core.at # "AWAITING_SELECTION" /\ CoreSubmit(<<>>)
  \/ \E synth \in SynthResults : CoreForceConclude(synth)
  \/ \E number \in 1..maxRounds : CoreAppendOutOfTurn(number)

SpecCore == Init /\ [][CoreNext]_vars

\* The user keeps submitting valid selections and the collaborators' calls
\* eventually succeed.
CoreFairness ==
  /\ WF_vars(CoreCreate(<<"a">>))
  /\ SF_vars(\E gen \in GenResults : gen.ok /\ CoreGenerate(gen))
  /\ SF_vars(\E synth \in SynthResults : synth.present /\ CoreSynthesize(synth))
  /\ SF_vars(core.at = "AWAITING_SELECTION"
             /\ CoreSubmit(CoreAnswers(core.s.rounds[core.s.currentRound])))

SpecCoreFair == Init /\ [][CoreNext]_vars /\ CoreFairness

\* ---------------------------------------------------------- showScreen alone
\* showScreen statement by statement, the handlers seen only as its callers.
\* active is the set of screens carrying the class 'active', raf the targets
\* of the requestAnimationFrame callbacks queued and not yet run, screen the
\* target of the last call, net the requests awaited.  A button is pressed
\* only on a screen that is active; the logo is outside the screens.
Screens == {"screenWelcome", "screenLoading", "screenQuestions", "screenResults"}

\* showScreen(screenId): 'active' is removed from every screen now, and added
\* to the target by a callback queued for the next frame.
ShowScreenCall(screenId) ==
  /\ Len(raf) < MaxPending
  /\ active' = {}
  /\ raf' = Append(raf, screenId)
  /\ ShowScreen(screenId)

\* The next frame: the browser runs every callback queued, in order.
AnimationFrame ==
  /\ raf # <<>>
  /\ active' = active \cup {raf[k] : k \in 1..Len(raf)}
  /\ raf' = <<>>
  /\ UNCHANGED <<state, dom, net, nStarts, sessions, ev, resultsFor, judged, core,
                 questionsFor>>

\* handleStart and handleNext up to their await: showScreen('screenLoading')
ScreenAwait(from, kind) ==
  /\ from \in active
  /\ Len(net) < MaxCalls
  /\ ShowScreenCall("screenLoading")
  /\ net' = Append(net, [NoCall EXCEPT !.kind = kind, !.phase = "sent"])
  /\ UNCHANGED <<state, ideaInput, questionsList, btnNextDisabled, roundLabel,
                 resultsView, nStarts, sessions, ev, resultsFor, judged, core,
                 questionsFor>>

\* handleStart and handleNext after their await: showScreen('screenResults')
\* or showScreen('screenQuestions')
ScreenResume(i, screenId) ==
  /\ ShowScreenCall(screenId)
  /\ net' = RemoveAt(net, i)
  /\ UNCHANGED <<state, ideaInput, questionsList, btnNextDisabled, roundLabel,
                 resultsView, nStarts, sessions, ev, resultsFor, judged, core,
                 questionsFor>>

\* handleBack (btnBack on the question screen) and handleRestart (btnRestart
\* on the results screen, or the logo at any time): showScreen('screenWelcome')
ScreenReset(from) ==
  /\ from \in active \/ from = "logo"
  /\ ShowScreenCall("screenWelcome")
  /\ UNCHANGED <<state, ideaInput, questionsList, btnNextDisabled, roundLabel,
                 resultsView, net, nStarts, sessions, ev, resultsFor, judged, core,
                 questionsFor>>

ScreenNext ==
  \/ ScreenAwait("screenWelcome", "start")
  \/ ScreenAwait("screenQuestions", "select")
  \/ \E i \in 1..Len(net) : \E id \in {"screenQuestions", "screenResults"} :
       ScreenResume(i, id)
  \/ \E from \in {"screenQuestions", "screenResults", "logo"} : ScreenReset(from)
  \/ AnimationFrame

SpecScreen == Init /\ [][ScreenNext]_vars

\* ================================================================ properties
Resumes == {"handleStart:resume", "handleNext:resume"}

\* The select requests handleNext has sent and the server has not yet taken.
SentSelects == {i \in 1..Len(net) : net[i].kind = "select" /\ net[i].phase = "sent"}

\* Text with a character that is not white space.
NonBlank(text) == \E j \in 1..Len(text) : text[j] # " "

\* C1: decide returns (true, "max iterations reached") whenever roundNumber >=
\* maxRounds, otherwise (true, "no remaining uncertainties") when no
\* uncertainty remains, otherwise (false, null); the max-rounds rule wins when
\* both hold, and the reason is null exactly when the decision is to continue.
JudgeDecides ==
  judged.done =>
    LET r == judged.roundNumber
        m == judged.limit
        none == judged.understanding.remainingUncertainties = <<>>
        out == judged.out
    IN /\ r >= m =>
            out = [shouldConclude |-> TRUE, reason |-> "max iterations reached"]
       /\ r < m /\ none =>
            out = [shouldConclude |-> TRUE, reason |-> "no remaining uncertainties"]
       /\ r < m /\ ~none => out = [shouldConclude |-> FALSE, reason |-> Null]
       /\ (out.reason = Null) <=> ~out.shouldConclude

\* decide ran past the limit with no uncertainty left: both rules apply.
JudgeBothRules ==
  /\ judged.done
  /\ judged.roundNumber > judged.limit
  /\ judged.understanding.remainingUncertainties = <<>>
  /\ judged.out.reason = "max iterations reached"

\* C2: state.currentRound never exceeds state.maxRounds.
RoundWithinMax == currentRound <= maxRounds

\* C3: once a session is completed it stays completed, and the results screen
\* is left only by handleRestart: no late response brings the question screen
\* back.
ResultsLeftOnlyByRestart ==
  [][/\ \A k \in DOMAIN sessions :
          sessions[k].status = "completed" => sessions'[k].status = "completed"
     /\ (screen = "screenResults" /\ screen' # "screenResults")
          => ev'.h = "handleRestart"]_vars

\* C4: a session has a finalOutput exactly when it is completed; a handler
\* resuming with a response shows the results screen and renders the results
\* exactly when the response carried final_output, and shows the question
\* screen exactly when it did not.
ResultsIffFinalOutput ==
  [][/\ \A k \in DOMAIN sessions' :
          sessions'[k].finalOutput.present <=> sessions'[k].status = "completed"
     /\ ev'.h \in Resumes =>
          IF ev'.final
          THEN screen' = "screenResults" /\ resultsView'.present
          ELSE screen' = "screenQuestions" /\ resultsView' = resultsView]_vars

\* A server response with final_output was processed while a completed
\* session is stored.
ResultsShownFromServer ==
  /\ ev.h \in Resumes /\ ev.final /\ ~ev.mock
  /\ screen = "screenResults"
  /\ \E k \in DOMAIN sessions : sessions[k].status = "completed"

\* C5: a failed select request leaves state.currentRound as it was.
FailedSubmitKeepsRound ==
  (ev.h = "handleNext:resume" /\ ev.mock) => currentRound = ev.round

\* C6: a handler never resumes with data the server did not produce: a failed
\* request shows neither questions nor a final output.
NoSilentRecovery == ev.h \in Resumes => ~ev.mock

\* C10: for an empty or whitespace-only idea text handleStart issues no start
\* request, leaves sessionId, currentRound and originalInput unchanged and
\* stays on the welcome screen.
BlankStartRejected ==
  [][(ev'.h \in {"handleStart", "handleStart:return"} /\ ~NonBlank(ideaInput))
       => /\ UNCHANGED <<sessionId, currentRound, originalInput, screen, net, nStarts>>
          /\ screen' = "screenWelcome"]_vars

\* handleStart returned early on a whitespace-only idea.
BlankStartReturned ==
  /\ ev.h = "handleStart:return"
  /\ ideaInput = <<" ">>
  /\ screen = "screenWelcome"
  /\ net = <<>>

\* A selection entry and the question block it was built from.
ExactlyOneAnswer(entry) ==
  (entry.selected_option # NullText) # (entry.custom_input # NullText)

OfferedOption(entry, q) ==
  \E o \in 1..Len(q.options) : q.options[o] = entry.selected_option

\* C7: each entry handleNext builds has exactly one of selected_option and
\* custom_input non-null, and a non-null selected_option is one of the option
\* strings offered for that question in the displayed round.
EntriesOptionOrFreeText ==
  \A i \in SentSelects :
    /\ Len(net[i].entries) = Len(currentData.selections)
    /\ \A k \in 1..Len(net[i].entries) :
         LET entry == net[i].entries[k]
         IN /\ ExactlyOneAnswer(entry)
            /\ entry.selected_option # NullText
                 => OfferedOption(entry, currentData.selections[k])

\* C8: no 'custom' entry of state.selections, and no custom_input of a
\* submitted entry, belongs to a question whose allow_other is false.
FreeTextOnlyWithAllowOther ==
  /\ \A q \in DOMAIN selections :
       selections[q].type = "custom" => currentData.selections[q].allow_other
  /\ \A i \in SentSelects : \A k \in 1..Len(net[i].entries) :
       net[i].entries[k].custom_input # NullText
         => currentData.selections[k].allow_other

\* A submission with free text for one question and an option for a question
\* that does not allow free text.
FreeTextBesideOptionOnly ==
  \E i \in SentSelects : \E k, l \in 1..Len(net[i].entries) :
    /\ net[i].entries[k].custom_input # NullText
    /\ ~currentData.selections[l].allow_other
    /\ net[i].entries[l].selected_option # NullText

\* The question has an answer: an option, or free text that is not blank.
HasAnswer(q) ==
  /\ q \in DOMAIN selections
  /\ \/ selections[q].type = "option"
     \/ selections[q].type = "custom" /\ NonBlank(selections[q].value)

\* C9: btnNext is enabled exactly when every question of the displayed round
\* has an answer, so the list handleNext submits has one entry per asked
\* question, in question order.
NextEnabledIffAllAnswered ==
  /\ screen = "screenQuestions"
       => (~btnNextDisabled <=> \A q \in 1..Len(questionsList) : HasAnswer(q))
  /\ \A i \in SentSelects :
       /\ Len(net[i].entries) = Len(questionsList)
       /\ \A k \in 1..Len(questionsList) :
            /\ net[i].entries[k].question = TextContent(questionsList[k].question)
            /\ HasAnswer(k)
            /\ net[i].entries[k] = SelectionEntry(k, selections[k], questionsList)

\* 'other' chosen with blank text keeps btnNext disabled while every other
\* question of a three-question round is answered.
BlankOtherKeepsNextDisabled ==
  /\ screen = "screenQuestions" /\ btnNextDisabled
  /\ Len(questionsList) = 3
  /\ \E q \in DOMAIN selections :
       /\ selections[q].type = "custom" /\ selections[q].value = <<" ">>
       /\ \A r \in 1..Len(questionsList) : r # q => HasAnswer(r)

\* The handler steps that write state.currentRound.
RoundWriters == {"handleStart:resume", "handleNext:resume", "handleBack", "handleRestart"}

\* C11: handleNext raises state.currentRound by exactly 1 on a response
\* without final_output and leaves it alone on one with final_output; the
\* other writes (handleStart, resetState) set it to 1; no other step changes
\* it, and a stored session's currentRound moves by one at a time.
RoundStepsByOne ==
  [][/\ ev'.h = "handleNext:resume"
          => currentRound' = IF ev'.final THEN currentRound ELSE currentRound + 1
     /\ ev'.h \in RoundWriters \ {"handleNext:resume"} => currentRound' = 1
     /\ ev'.h \notin RoundWriters => currentRound' = currentRound
     /\ \A k \in DOMAIN sessions :
          \/ sessions'[k].currentRound = sessions[k].currentRound
          \/ sessions'[k].currentRound = sessions[k].currentRound + 1]_vars

\* handleNext processed a server response without final_output at round 2.
RoundRaisedByOne ==
  /\ ev.h = "handleNext:resume" /\ ~ev.final /\ ~ev.mock
  /\ ev.round = 2 /\ currentRound = 3

\* The select requests not yet processed by handleNext that name session k.
SelectsNaming(k) == {i \in 1..Len(net) : net[i].kind = "select" /\ net[i].sid = k}

\* C12: while a request for a session awaits processing, no second request
\* for that session is issued.
OneRequestPerSession ==
  \A k \in DOMAIN sessions : Cardinality(SelectsNaming(k)) <= 1

\* C13: a start response that signals conclusion (should_conclude = true)
\* leads handleStart to the results screen, never to the question screen.
ConcludingStartShowsResults ==
  (ev.h = "handleStart:resume" /\ screen = "screenQuestions")
    => ~currentData.should_conclude

\* C14: the happy path completes: after startSession produced Round 1
\* without conclusion, a submitSelections with valid answers whose Round 2
\* concludes runs conclude() without InvalidStateError, with one Synthesizer
\* call, and ends completed with a finalOutput whose actionItems is non-empty.
HappyPathCompletes ==
  (/\ core.op = "submitSelections" /\ core.step = "conclude"
   /\ core.prev.currentRound = 2 /\ core.pending.shouldConclude)
    => /\ core.err = ""
       /\ core.synthCalls = 1
       /\ core.s.status = "completed"
       /\ core.s.finalOutput.present /\ core.s.finalOutput.action_items > 0

\* C15: forceConclude on an in_progress session completes it whatever the
\* most recent round's shouldConclude, and fails with InvalidStateError only
\* on a completed session.
ForceConcludeCompletes ==
  (core.step = "forceConclude" /\ core.err # "GenerationFailedError")
    => IF core.prev.status = "in_progress"
       THEN /\ core.err = ""
            /\ core.s.status = "completed" /\ core.s.finalOutput.present
       ELSE core.err = "InvalidStateError"

\* C16: appendRound out of turn fails with InvalidStateError and leaves the
\* session unchanged, and the rounds of the session are numbered 1, 2, ...,
\* len(rounds).
AppendRoundInTurn ==
  /\ core.step = "appendRound out of turn"
       => core.err = "InvalidStateError" /\ core.s = core.prev
  /\ \A i \in 1..Len(core.s.rounds) : core.s.rounds[i].roundNumber = i

\* appendRound was refused on an in_progress session holding rounds 1 and 2.
AppendRefusedAtRoundTwo ==
  /\ core.step = "appendRound out of turn" /\ core.err = "InvalidStateError"
  /\ core.s.status = "in_progress"
  /\ core.s.currentRound = 2 /\ Len(core.s.rounds) = 2

\* C17: currentRound is len(rounds) while the session is at rest and
\* len(rounds) + 1 while the next round is being generated, and never any
\* other value.
RoundCounterTracksRounds ==
  core.at # "none" =>
    LET n == Len(core.s.rounds)
        r == core.s.currentRound
    IN /\ r = n \/ r = n + 1
       /\ core.at \in {"AWAITING_SELECTION", "COMPLETED"} => r = n
       /\ core.at = "AWAITING_GENERATION" => r = n + 1

\* Round 3 is being generated: two rounds are held, currentRound is 3.
ThirdRoundPending ==
  /\ core.at = "AWAITING_GENERATION" /\ core.step = "advance"
  /\ core.s.currentRound = 3 /\ Len(core.s.rounds) = 2

EventuallyCompleted == <>(core.at = "COMPLETED")

\* C20: with every request falling back to mock data, handleStart shows the
\* round 1 questions, a handleNext that shows questions shows those of round
\* 2, any further handleNext shows the results, and state.currentRound never
\* exceeds 2.
MockFlowTwoRounds ==
  /\ ev.h = "handleStart:resume" => screen = "screenQuestions" /\ currentRound = 1
  /\ ev.h = "handleNext:resume" =>
       \/ screen = "screenQuestions" /\ ev.round = 1 /\ currentRound = 2
       \/ screen = "screenResults" /\ currentRound = ev.round
  /\ currentRound <= 2

\* C21: a response that arrives after handleBack or handleRestart has run
\* resetState changes neither state.sessionId nor state.currentRound and
\* leaves the welcome screen in place.  The welcome screen with a request
\* still in flight is the page after such a reset: every request is issued
\* by a handler that shows the loading screen.
LateResponseIgnored ==
  [][(screen = "screenWelcome" /\ ev'.h \in Resumes)
       => /\ sessionId' = sessionId
          /\ currentRound' = currentRound
          /\ screen' = "screenWelcome"]_vars

\* C22: when handleNext calls submitSelections, state.sessionId is not null
\* and is the session of the start response behind the questions displayed.
SubmitNamesDisplayedSession ==
  ev.h = "handleNext" => ev.sid # NoSession /\ ev.sid = questionsFor

\* C23: while the question screen is displayed, state.sessionId names a
\* session the server knows, state.currentRound is that session's
\* currentRound, and the questions displayed are that session's pending round.
InStepWithServer ==
  screen = "screenQuestions"
    => /\ sessionId \in DOMAIN sessions
       /\ currentRound = sessions[sessionId].currentRound
       /\ currentRound <= Len(sessions[sessionId].rounds)
       /\ questionsList = sessions[sessionId].rounds[currentRound].selections

\* C24: at most one screen carries the class 'active' at any time, and once
\* every queued requestAnimationFrame callback has run the only active screen
\* is the target of the most recent showScreen call.
OneActiveScreen ==
  /\ Cardinality(active) <= 1
  /\ raf = <<>> => active = {screen}

=============================================================================
